---- MODULE Spec2Model ----
(***************************************************************************)
(* Model of src/combined_search.py: the /search slash-command handler      *)
(* (handle_search), its three service adapters (search_slack, search_jira, *)
(* search_confluence) and the summarizer (summarize_results).              *)
(*                                                                         *)
(* Encoding of Python values:                                              *)
(*   - None is the string None; environment values and the command text    *)
(*     are TLA+ strings, so Python truthiness is "neither None nor empty". *)
(*   - a JSON object is a record; a missing key is a missing field.        *)
(*   - JSON null, JSON strings used as texts, and JSON values that are not *)
(*     objects carry a "json" tag field (JNull, JStr, JArray).             *)
(*   - a text is a sequence of one-character strings, so that lower(),     *)
(*     the \w+ tokenizer and len() are computed character by character.    *)
(*   - a string built by an f-string is the sequence of its parts.         *)
(***************************************************************************)
EXTENDS Integers, Sequences, FiniteSets, TLC

VARIABLES
    env,            \* os.environ, as read by os.environ.get
    command,        \* the command payload handed to handle_search
    pc,             \* position of handle_search
    query,          \* local variable query
    results,        \* local variable results
    trace,          \* calls made so far: ack, each GET with what it produced, respond
    raisedBy        \* the function an exception left handle_search from, or None

vars == <<env, command, pc, query, results, trace, raisedBy>>

----------------------------------------------------------------------------
(* Bounds *)

\* Longest list of items a service returns in one response.
MaxItems == 2

----------------------------------------------------------------------------
(* Python and JSON values *)

None == "None"

Truthy(v) == v # None /\ v # ""

JNull == [json |-> "null"]
JStr(s) == [json |-> "string", s |-> s]
JArray == [json |-> "array"]

IsDict(j) == "json" \notin DOMAIN j
IsStr(j) == ~IsDict(j) /\ j.json = "string"

\* dict.get(key, default)
Get(d, key, default) == IF key \in DOMAIN d THEN d[key] ELSE default

EmptyStr == JStr(<<>>)
EmptyDict == [x \in {} |-> None]

----------------------------------------------------------------------------
(* Characters: str.lower() and the \w class of re, on the ASCII characters *)
(* the modelled texts are written in.                                      *)

UpperCase == <<"A", "B", "C", "D", "E", "F", "G", "H", "I", "J", "K", "L", "M",
               "N", "O", "P", "Q", "R", "S", "T", "U", "V", "W", "X", "Y", "Z">>
LowerCase == <<"a", "b", "c", "d", "e", "f", "g", "h", "i", "j", "k", "l", "m",
               "n", "o", "p", "q", "r", "s", "t", "u", "v", "w", "x", "y", "z">>
Digits == {"0", "1", "2", "3", "4", "5", "6", "7", "8", "9"}

Range(f) == {f[i] : i \in DOMAIN f}

UpperChars == Range(UpperCase)
WordChars == Range(UpperCase) \cup Range(LowerCase) \cup Digits \cup {"_"}

\* str.lower(), one character
LowerChar(c) ==
    IF c \in UpperChars
    THEN LowerCase[CHOOSE i \in DOMAIN UpperCase : UpperCase[i] = c]
    ELSE c

\* str.lower()
Lower(text) == [i \in DOMAIN text |-> LowerChar(text[i])]

\* the characters \w matches
IsWordChar(c) == c \in WordChars

----------------------------------------------------------------------------
(* Inputs: the environment, the command, and what the services answer *)

Services == <<"Slack", "Jira", "Confluence">>

\* a credential variable is unset, set to the empty string, or set
EnvValues == {None, "", "v"}

\* One service's three variables: all set, all unset, or exactly one of them
\* unset or empty.
Bundles(base, email, token) ==
    LET full == (base :> "v") @@ (email :> "v") @@ (token :> "v")
    IN  {full, (base :> None) @@ (email :> None) @@ (token :> None)}
        \cup {[full EXCEPT ![k] = x] : k \in {base, email, token}, x \in {None, ""}}

\* FILE_STORAGE_API_KEY stands for the optional file-storage key of the
\* configuration; handle_search never reads it.
Environments ==
    {(("SLACK_BOT_TOKEN" :> s) @@ j @@ c @@ ("FILE_STORAGE_API_KEY" :> f)) :
        s \in EnvValues,
        j \in Bundles("JIRA_BASE_URL", "JIRA_EMAIL", "JIRA_API_TOKEN"),
        c \in Bundles("CONFLUENCE_BASE_URL", "CONFLUENCE_EMAIL", "CONFLUENCE_API_TOKEN"),
        f \in {None, "v"}}

\* the payload with no text, an empty text, a blank text, a query
Commands == {EmptyDict, [text |-> ""], [text |-> "   "], [text |-> "deploy"]}

TextTopics == JStr(<<"C", "c", "c", " ", "d", "d", "d", " ", "e", "e", "e", ",", " ", "T", "H", "E", " ", "f", "f", "f", " ", "g", "g", "g", " ", "h", "h", "h", " ", "H", "H", "H", " ", "a", "b">>)
TextOutage == JStr(<<"h", "h", "h", " ", "c", "c", "c", " ", "f", "o", "r">>)
TextStopOnly == JStr(<<"t", "h", "e", " ", "a", "n", "d", " ", "y", "o", "u">>)
TextPage == JStr(<<"c", "c", "c", " ", "i", "i", "i">>)

SlackItems ==
    { [text |-> TextTopics, permalink |-> "https://x/1"],
      [text |-> JNull] }

\* a match without text, and a match that is a JSON string
SlackOddLists == {<<[permalink |-> "https://x/2"]>>, <<JStr(<<"x">>)>>}

JiraItems ==
    { [key |-> "OPS-12", fields |-> [summary |-> TextOutage]],
      [fields |-> EmptyDict] }

ConfluenceItems ==
    { [title |-> TextStopOnly, url |-> "/pages/1"],
      [title |-> TextPage] }

\* the lists of at most n elements of S
RECURSIVE Lists(_, _)
Lists(S, n) ==
    IF n = 0 THEN {<<>>}
    ELSE LET shorter == Lists(S, n - 1)
         IN  shorter \cup {Append(l, x) : l \in shorter, x \in S}

NotJson == [json |-> "invalid"]

\* What requests.get produces: an exception (timeout, transport error), or a
\* response with a status (ok: below 400) and a body. The bodies are text that
\* is no JSON, a JSON array, and JSON objects without the list and with a list
\* of items.
Raises == [exc |-> TRUE]
Response(ok, body) == [exc |-> FALSE, ok |-> ok, body |-> body]

SlackResponses ==
    {Raises, Response(FALSE, NotJson),
     Response(FALSE, [ok |-> TRUE, messages |-> [matches |-> <<>>]]),
     Response(TRUE, NotJson), Response(TRUE, JArray),
     Response(TRUE, [ok |-> FALSE]), Response(TRUE, [ok |-> TRUE])}
    \cup {Response(TRUE, [ok |-> TRUE, messages |-> [matches |-> l]]) :
            l \in Lists(SlackItems, MaxItems) \cup SlackOddLists}

JiraResponses ==
    {Raises, Response(FALSE, NotJson), Response(TRUE, NotJson),
     Response(TRUE, JArray), Response(TRUE, EmptyDict)}
    \cup {Response(TRUE, [issues |-> l]) : l \in Lists(JiraItems, MaxItems)}

ConfluenceResponses ==
    {Raises, Response(FALSE, NotJson), Response(TRUE, NotJson),
     Response(TRUE, JArray), Response(TRUE, EmptyDict)}
    \cup {Response(TRUE, [results |-> l]) : l \in Lists(ConfluenceItems, MaxItems)}

----------------------------------------------------------------------------
(* Results of calls that may raise *)

Raised == [raised |-> TRUE]
Returned(v) == [raised |-> FALSE, value |-> v]

----------------------------------------------------------------------------
(* The adapters, as functions of what requests.get produced *)

\* search_slack, lines 23-36
search_slack(response) ==
    IF response.exc THEN Raised
    ELSE IF ~response.ok THEN Returned(<<>>)
    ELSE IF response.body = NotJson \/ ~IsDict(response.body) THEN Raised
    ELSE IF ~("ok" \in DOMAIN response.body /\ response.body.ok) THEN Returned(<<>>)
    ELSE LET messages == Get(response.body, "messages", EmptyDict)
         IN  IF ~IsDict(messages) THEN Raised
             ELSE Returned(Get(messages, "matches", <<>>))

\* search_jira raising on a non-success status instead of returning []
search_jira_raising(response) ==
    IF response.exc \/ ~response.ok THEN Raised
    ELSE IF response.body = NotJson \/ ~IsDict(response.body) THEN Raised
    ELSE Returned(Get(response.body, "issues", <<>>))

\* search_jira, lines 43-56
search_jira(response) ==
    IF response.exc THEN Raised
    ELSE IF ~response.ok THEN Returned(<<>>)
    ELSE IF response.body = NotJson \/ ~IsDict(response.body) THEN Raised
    ELSE Returned(Get(response.body, "issues", <<>>))

\* search_confluence, lines 62-75
search_confluence(response) ==
    IF response.exc THEN Raised
    ELSE IF ~response.ok THEN Returned(<<>>)
    ELSE IF response.body = NotJson \/ ~IsDict(response.body) THEN Raised
    ELSE Returned(Get(response.body, "results", <<>>))

----------------------------------------------------------------------------
(* summarize_results *)

\* len(tok) < 3, line 117
MinTokenLen == 3
\* [:5], line 124
TopN == 5

\* the set stop, lines 94-114
stop ==
    { <<"t", "h", "e">>,
      <<"a", "n", "d">>,
      <<"f", "o", "r">>,
      <<"w", "i", "t", "h">>,
      <<"t", "h", "i", "s">>,
      <<"t", "h", "a", "t">>,
      <<"a", "r", "e">>,
      <<"y", "o", "u">>,
      <<"y", "o", "u", "r">>,
      <<"h", "a", "v", "e">>,
      <<"h", "a", "s">>,
      <<"f", "r", "o", "m">>,
      <<"b", "u", "t">>,
      <<"n", "o", "t">>,
      <<"u", "s", "e">>,
      <<"p", "a", "r", "a">>,
      <<"l", "o", "s">>,
      <<"l", "a", "s">> }

\* What one item appends to the corpus, lines 83-88. item.get raises on an
\* item that is no dict, and .get("summary") on fields that are no dict.
CorpusText(service, item) ==
    IF ~IsDict(item) THEN Raised
    ELSE IF service = "Slack" THEN Returned(Get(item, "text", EmptyStr))
    ELSE IF service = "Jira" THEN
        LET fields == Get(item, "fields", EmptyDict)
        IN  IF ~IsDict(fields) THEN Raised
            ELSE Returned(Get(fields, "summary", EmptyStr))
    ELSE Returned(Get(item, "title", EmptyStr))

RECURSIVE Flatten(_)
Flatten(seqs) ==
    IF seqs = <<>> THEN <<>> ELSE Head(seqs) \o Flatten(Tail(seqs))

\* the appends of the loops of lines 81-88, in order
CorpusAppends(res) ==
    Flatten([g \in DOMAIN res |->
                [i \in DOMAIN res[g].items |->
                    CorpusText(res[g].service, res[g].items[i])]])

\* " ".join(corpus), on texts
RECURSIVE Join(_)
Join(texts) ==
    IF texts = <<>> THEN <<>>
    ELSE IF Len(texts) = 1 THEN texts[1]
    ELSE texts[1] \o <<" ">> \o Join(Tail(texts))

\* re.findall(r"\w+", text): the maximal runs of word characters, in the
\* order of their first characters.
FindAll(text) ==
    LET word == [i \in DOMAIN text |-> IsWordChar(text[i])]
        starts == {i \in DOMAIN text : word[i] /\ (i = 1 \/ ~word[i - 1])}
        ends == {j \in DOMAIN text : word[j] /\ (j = Len(text) \/ ~word[j + 1])}
        end(i) == CHOOSE j \in ends : j >= i /\ \A k \in ends : k >= i => j <= k
        nth(n) == CHOOSE i \in starts : Cardinality({k \in starts : k < i}) = n - 1
    IN  [n \in 1..Cardinality(starts) |-> SubSeq(text, nth(n), end(nth(n)))]

\* Skipped without the stop-word test
SkippedShortOnly(tok) == Len(tok) < MinTokenLen

\* the test of line 117
Skipped(tok) == tok \in stop \/ Len(tok) < MinTokenLen

\* freq[tok] = freq.get(tok, 0) + 1, on a dict kept in insertion order
Count(freq, tok) ==
    IF \E i \in DOMAIN freq : freq[i].word = tok
    THEN [i \in DOMAIN freq |->
            IF freq[i].word = tok
            THEN [freq[i] EXCEPT !.count = @ + 1] ELSE freq[i]]
    ELSE Append(freq, [word |-> tok, count |-> 1])

\* the loop of lines 115-119
RECURSIVE Frequencies(_, _)
Frequencies(tokens, freq) ==
    IF tokens = <<>> THEN freq
    ELSE Frequencies(Tail(tokens),
                     IF Skipped(Head(tokens)) THEN freq ELSE Count(freq, Head(tokens)))

\* sorted(freq.items(), key=lambda x: x[1], reverse=True): by count, largest
\* first, entries of equal count in their order in freq (the sort is stable).
RECURSIVE SortedByCount(_, _)
SortedByCount(items, sorted) ==
    IF items = <<>> THEN sorted
    ELSE LET e == Head(items)
             k == Cardinality({i \in DOMAIN sorted : sorted[i].count >= e.count})
         IN  SortedByCount(Tail(items),
                           SubSeq(sorted, 1, k) \o <<e>> \o SubSeq(sorted, k + 1, Len(sorted)))

\* line 124
TopWords(freq) ==
    LET ranked == SortedByCount(freq, <<>>)
    IN  [i \in 1..(IF Len(ranked) < TopN THEN Len(ranked) ELSE TopN) |-> ranked[i].word]

\* lines 90-93
Tokens(corpus) == FindAll(Lower(Join([i \in DOMAIN corpus |-> corpus[i].s])))

\* the returned strings: "" and "Top topics: " + ", ".join(top_words) + "."
NoSummary == [str |-> ""]
TopTopics(words) == [str |-> "Top topics: {}.", words |-> words]

\* summarize_results, lines 78-125. " ".join raises on a corpus entry that is
\* no string.
summarize_results(res) ==
    LET appends == CorpusAppends(res)
    IN  IF \E i \in DOMAIN appends : appends[i].raised THEN Raised
        ELSE LET corpus == [i \in DOMAIN appends |-> appends[i].value]
             IN  IF \E i \in DOMAIN corpus : ~IsStr(corpus[i]) THEN Raised
                 ELSE LET freq == Frequencies(Tokens(corpus), <<>>)
                      IN  IF freq = <<>> THEN Returned(NoSummary)
                          ELSE Returned(TopTopics(TopWords(freq)))

----------------------------------------------------------------------------
(* The reply of handle_search *)

\* The lines of the message, each by the literal of the code that builds it;
\* "\n".join(message_lines) is their sequence.
\*   header          f"*Results for:* `{query}`\n"    line 175
\*   service         f"*{service['service']}*:"        line 177
\*   no results      "\t- No results found."           line 180
\*   bullet          f"\t• <{link}|{text}>"       line 193
\*   blank           ""                                line 194
\*   summary header  "*Summary:*"                      line 198
\*   summary         summary                           line 199
HeaderLine(q) == [line |-> "header", query |-> q]
ServiceLine(service) == [line |-> "service", service |-> service]
NoResultsLine == [line |-> "no results"]
BulletLine(link, text) == [line |-> "bullet", link |-> link, text |-> text]
BlankLine == [line |-> "blank"]
SummaryHeaderLine == [line |-> "summary header"]
SummaryLine(summary) == [line |-> "summary", summary |-> summary]

\* a text value inside an f-string: None is written "None"
Format(v) == IF v = JNull THEN <<"N", "o", "n", "e">> ELSE v.s

\* the bullet of one item, lines 183-193; link is the sequence of the parts
\* of the f-string, text the characters written
ItemLine(service, item, e) ==
    IF ~IsDict(item) THEN Raised
    ELSE IF service = "Slack" THEN
        Returned(BulletLine(<<Get(item, "permalink", "")>>,
                            Format(Get(item, "text", JStr(<<"(", "n", "o", " ", "t", "e", "x", "t", ")">>)))))
    ELSE IF service = "Jira" THEN
        LET key == Get(item, "key", None)
            fields == Get(item, "fields", EmptyDict)
        IN  IF ~IsDict(fields) THEN Raised
            ELSE Returned(BulletLine(
                    IF Truthy(key) THEN <<e["JIRA_BASE_URL"], "/browse/", key>> ELSE <<"">>,
                    Format(Get(fields, "summary", EmptyStr))))
    ELSE
        Returned(BulletLine(
            IF Truthy(Get(item, "url", None))
            THEN <<e["CONFLUENCE_BASE_URL"], Get(item, "url", "")>> ELSE <<"">>,
            Format(Get(item, "title", EmptyStr))))

\* GroupLines without the line of a group that has no items
GroupLinesNoPlaceholder(group, e) ==
    <<ServiceLine(group.service)>>
    \o [i \in DOMAIN group.items |-> ItemLine(group.service, group.items[i], e)]
    \o <<BlankLine>>

\* the lines one group appends, lines 177-194
GroupLines(group, e) ==
    <<ServiceLine(group.service)>>
    \o (IF group.items = <<>> THEN <<NoResultsLine>>
        ELSE [i \in DOMAIN group.items |-> ItemLine(group.service, group.items[i], e)])
    \o <<BlankLine>>

\* message_lines after the loop of lines 175-194, entries not yet unwrapped
MessageAppends(q, res, e) ==
    <<HeaderLine(q)>> \o Flatten([g \in DOMAIN res |-> GroupLines(res[g], e)])

IsRaised(x) == "raised" \in DOMAIN x /\ x.raised

\* lines 174-194
message_lines(q, res, e) ==
    LET appends == MessageAppends(q, res, e)
    IN  IF \E i \in DOMAIN appends : IsRaised(appends[i]) THEN Raised
        ELSE Returned([i \in DOMAIN appends |->
                        IF "raised" \in DOMAIN appends[i] THEN appends[i].value
                        ELSE appends[i]])

\* lines 196-199
WithSummary(lines, summary) ==
    IF summary.str # "" THEN lines \o <<SummaryHeaderLine, SummaryLine(summary)>>
    ELSE lines

\* the messages handed to respond
Notice(text) == [kind |-> "notice", text |-> text]
Results(lines) == [kind |-> "results", lines |-> lines]

NoQueryNotice == Notice("Please provide a search query.")
NotConfiguredNotice == Notice("No services configured for search.")

----------------------------------------------------------------------------
(* Which services handle_search queries, lines 158, 162, 166 *)

SlackConfigured(e) == Truthy(e["SLACK_BOT_TOKEN"])

JiraConfigured(e) ==
    Truthy(e["JIRA_BASE_URL"]) /\ Truthy(e["JIRA_EMAIL"]) /\ Truthy(e["JIRA_API_TOKEN"])

\* ConfluenceConfigured without the test of the email
ConfluenceConfiguredNoEmail(e) ==
    Truthy(e["CONFLUENCE_BASE_URL"]) /\ Truthy(e["CONFLUENCE_API_TOKEN"])

ConfluenceConfigured(e) ==
    /\ Truthy(e["CONFLUENCE_BASE_URL"])
    /\ Truthy(e["CONFLUENCE_EMAIL"])
    /\ Truthy(e["CONFLUENCE_API_TOKEN"])

----------------------------------------------------------------------------
(* The calls recorded in trace *)

AckCall == [ev |-> "ack"]
GetCall(service, response) == [ev |-> "get", service |-> service, response |-> response]
RespondCall(message) == [ev |-> "respond", message |-> message]

----------------------------------------------------------------------------
(* handle_search *)

Init ==
    /\ env \in Environments
    /\ command \in Commands
    /\ pc = "ack"
    /\ query = None
    /\ results = <<>>
    /\ trace = <<>>
    /\ raisedBy = None

\* line 142
Ack ==
    /\ pc = "ack"
    /\ trace' = Append(trace, AckCall)
    /\ pc' = "query"
    /\ UNCHANGED <<env, command, query, results, raisedBy>>

\* the test of line 144
NoQuery(q) == ~Truthy(q)

\* lines 143-146
CheckQuery ==
    /\ pc = "query"
    /\ query' = Get(command, "text", "")
    /\ IF NoQuery(query')
       THEN /\ trace' = Append(trace, RespondCall(NoQueryNotice))
            /\ pc' = "done"
       ELSE /\ pc' = "slack"
            /\ UNCHANGED trace
    /\ UNCHANGED <<env, command, results, raisedBy>>

\* AppendGroup with the group left out when the adapter returned no items
AppendGroupIfItems(res, service, items) ==
    IF items = <<>> THEN res ELSE Append(res, [service |-> service, items |-> items])

\* results.append({"service": ..., "items": ...}), lines 160, 164, 168
AppendGroup(res, service, items) ==
    Append(res, [service |-> service, items |-> items])

\* NoGroups testing for items instead of groups
NoItems(res) == \A g \in DOMAIN res : res[g].items = <<>>

\* the test of line 170
NoGroups(res) == res = <<>>

\* One of the three blocks of lines 158-168: when the service is configured,
\* one GET, and either the exception leaves handle_search or the group is
\* appended. calls pairs each thing requests.get may produce with what the
\* adapter makes of it.
Search(at, next, service, configured, calls, name) ==
    /\ pc = at
    /\ IF configured
       THEN \E c \in calls :
              /\ trace' = Append(trace, GetCall(service, c.response))
              /\ IF c.out.raised
                 THEN /\ pc' = "raised"
                      /\ raisedBy' = name
                      /\ UNCHANGED results
                 ELSE /\ results' = AppendGroup(results, service, c.out.value)
                      /\ pc' = next
                      /\ UNCHANGED raisedBy
       ELSE /\ pc' = next
            /\ UNCHANGED <<trace, results, raisedBy>>
    /\ UNCHANGED <<env, command, query>>

\* lines 158-160
SearchSlack ==
    Search("slack", "jira", "Slack", SlackConfigured(env),
           {[response |-> r, out |-> search_slack(r)] : r \in SlackResponses},
           "search_slack")

\* lines 162-164
SearchJira ==
    Search("jira", "confluence", "Jira", JiraConfigured(env),
           {[response |-> r, out |-> search_jira(r)] : r \in JiraResponses},
           "search_jira")

\* lines 166-168
SearchConfluence ==
    Search("confluence", "reply", "Confluence", ConfluenceConfigured(env),
           {[response |-> r, out |-> search_confluence(r)] : r \in ConfluenceResponses},
           "search_confluence")

\* lines 170-201
Reply ==
    /\ pc = "reply"
    /\ IF NoGroups(results)
       THEN /\ trace' = Append(trace, RespondCall(NotConfiguredNotice))
            /\ pc' = "done"
            /\ UNCHANGED raisedBy
       ELSE LET lines == message_lines(query, results, env)
                summary == summarize_results(results)
            IN  IF lines.raised
                THEN /\ pc' = "raised"
                     /\ raisedBy' = "handle_search"
                     /\ UNCHANGED trace
                ELSE IF summary.raised
                THEN /\ pc' = "raised"
                     /\ raisedBy' = "summarize_results"
                     /\ UNCHANGED trace
                ELSE /\ trace' = Append(trace,
                            RespondCall(Results(WithSummary(lines.value, summary.value))))
                     /\ pc' = "done"
                     /\ UNCHANGED raisedBy
    /\ UNCHANGED <<env, command, query, results>>

Next ==
    \/ Ack
    \/ CheckQuery
    \/ SearchSlack
    \/ SearchJira
    \/ SearchConfluence
    \/ Reply

Spec == Init /\ [][Next]_vars

----------------------------------------------------------------------------
(* Vocabulary of the properties *)

IsGet(c) == c.ev = "get"
IsRespond(c) == c.ev = "respond"
IsAck(c) == c.ev = "ack"

Gets == SelectSeq(trace, IsGet)
Responds == SelectSeq(trace, IsRespond)
Acks == SelectSeq(trace, IsAck)

\* the positions in trace of the GETs to a service
GetsTo(s) == {i \in DOMAIN trace : IsGet(trace[i]) /\ trace[i].service = s}

\* the positions in results of the groups of a service
GroupsOf(s) == {g \in DOMAIN results : results[g].service = s}

ServiceNames(res) == [g \in DOMAIN res |-> res[g].service]

Finished == pc \in {"done", "raised"}

\* respond was called with the formatted results
SentResults == \E i \in DOMAIN trace :
                 IsRespond(trace[i]) /\ trace[i].message.kind = "results"

\* the lines of the formatted results sent
SentLines ==
    (CHOOSE c \in Range(trace) : IsRespond(c) /\ c.message.kind = "results").message.lines

Sent(notice) == \E i \in DOMAIN trace : trace[i] = RespondCall(notice)

\* handle_search is past its last adapter block
Aggregated ==
    \/ pc = "reply"
    \/ SentResults
    \/ Sent(NotConfiguredNotice)
    \/ pc = "raised" /\ raisedBy \in {"handle_search", "summarize_results"}

\* The services of the specification, in its order: Chat, IssueTracker, Wiki,
\* FileStorage.
SpecServices == <<"Slack", "Jira", "Confluence", "FileStorage">>

\* the credential bundle of each service
BundleVars(s) ==
    CASE s = "Slack" -> {"SLACK_BOT_TOKEN"}
      [] s = "Jira" -> {"JIRA_BASE_URL", "JIRA_EMAIL", "JIRA_API_TOKEN"}
      [] s = "Confluence" ->
            {"CONFLUENCE_BASE_URL", "CONFLUENCE_EMAIL", "CONFLUENCE_API_TOKEN"}
      [] s = "FileStorage" -> {"FILE_STORAGE_API_KEY"}

IsSet(v) == env[v] # None /\ env[v] # ""

\* a service is configured: its full bundle is present
BundlePresent(s) == \A v \in BundleVars(s) : IsSet(v)

\* a bundle is partly present: some variable set, another missing or empty
BundlePartial(s) == (\E v \in BundleVars(s) : IsSet(v)) /\ (\E v \in BundleVars(s) : ~IsSet(v))

\* the function an exception of a service's adapter leaves
AdapterOf(s) ==
    CASE s = "Slack" -> "search_slack"
      [] s = "Jira" -> "search_jira"
      [] s = "Confluence" -> "search_confluence"

\* the key of the list in a service's JSON body
ListKey(s) ==
    CASE s = "Slack" -> "matches"
      [] s = "Jira" -> "issues"
      [] s = "Confluence" -> "results"

\* a response with a non-success status, or for Slack a body whose ok is false
NonSuccess(s, r) ==
    /\ ~r.exc
    /\ \/ ~r.ok
       \/ s = "Slack" /\ IsDict(r.body) /\ "ok" \in DOMAIN r.body /\ ~r.body.ok

\* a call that failed otherwise: a timeout or transport error, or a success
\* status with a body that is no JSON or no JSON object
Failure(s, r) == r.exc \/ (r.ok /\ ~IsDict(r.body))

\* the list of items a well-formed success response carries
ListIn(s, r) ==
    IF NonSuccess(s, r) \/ Failure(s, r) THEN <<>>
    ELSE IF s = "Slack" /\ "ok" \notin DOMAIN r.body THEN <<>>
    ELSE LET holder == IF s = "Slack" THEN Get(r.body, "messages", EmptyDict) ELSE r.body
         IN  Get(holder, ListKey(s), <<>>)

----------------------------------------------------------------------------
(* C1 *)

\* the services whose bundle is present, in the order of the sequence given
Configured(order) == SelectSeq(order, BundlePresent)

\* every group holds what its service's GET carried
GroupsHoldItems ==
    \A g \in DOMAIN results :
        \E i \in GetsTo(results[g].service) :
            results[g].items = ListIn(results[g].service, trace[i].response)

\* C1, as claimed: once handle_search is past its adapter blocks, results holds
\* exactly one group per configured service among Chat, IssueTracker, Wiki and
\* FileStorage, in that order, and none for any other service; a service whose
\* adapter returned no items has its group, with empty items.
C1_GroupPerConfiguredOfFour ==
    Aggregated =>
        /\ ServiceNames(results) = Configured(SpecServices)
        /\ GroupsHoldItems

\* C1, amended: the same for the services handle_search has an adapter for,
\* Chat, IssueTracker and Wiki; a file-storage key in the configuration adds no
\* group. Before that point results holds the groups of the configured
\* services already queried, in that order.
C1_GroupPerConfiguredOfThree ==
    /\ Aggregated => ServiceNames(results) = Configured(Services)
    /\ \E n \in 0..Len(Configured(Services)) :
            ServiceNames(results) = SubSeq(Configured(Services), 1, n)
    /\ GroupsHoldItems

\* C1 witness: all three services configured, the file-storage key set too, and
\* the second of the three groups is empty.
C1_Witness ==
    /\ pc = "reply"
    /\ BundlePresent("FileStorage")
    /\ Len(results) = 3
    /\ results[2].items = <<>>
    /\ results[3].items # <<>>

----------------------------------------------------------------------------
(* C2 *)

\* the command texts that are empty or only whitespace
BlankTexts == {"", "   "}

\* C2, as claimed: when the text of the command is empty or only whitespace, no
\* HTTP GET is issued and the one reply is the notice "Please provide a search
\* query.".
C2_BlankQueryGetsNotice ==
    Get(command, "text", "") \in BlankTexts =>
        /\ Gets = <<>>
        /\ Finished => Responds = <<RespondCall(NoQueryNotice)>>

----------------------------------------------------------------------------
(* C3 *)

\* C3, as claimed: with a non-empty query and no service configured, no HTTP
\* GET is issued and the one reply is the notice "No services configured for
\* search."; the notice is never sent when one of Chat, IssueTracker, Wiki,
\* FileStorage is configured.
C3_NoticeIffNoneOfFour ==
    /\ (Truthy(Get(command, "text", "")) /\ Configured(SpecServices) = <<>>) =>
            /\ Gets = <<>>
            /\ pc # "raised"
            /\ pc = "done" => Responds = <<RespondCall(NotConfiguredNotice)>>
    /\ Configured(SpecServices) # <<>> => ~Sent(NotConfiguredNotice)

\* C3, amended: the same with "configured" read over the services
\* handle_search has an adapter for, Chat, IssueTracker and Wiki: the notice is
\* sent when none of the three is configured (a file-storage key alone does
\* not count), and never when one of them is, even if every adapter returned
\* an empty list.
C3_NoticeIffNoneOfThree ==
    /\ (Truthy(Get(command, "text", "")) /\ Configured(Services) = <<>>) =>
            /\ Gets = <<>>
            /\ pc # "raised"
            /\ pc = "done" => Responds = <<RespondCall(NotConfiguredNotice)>>
    /\ Configured(Services) # <<>> => ~Sent(NotConfiguredNotice)
    /\ (Configured(Services) # <<>> /\ pc = "done" /\ Truthy(Get(command, "text", ""))) =>
            SentResults

\* C3 witness: a service is configured, every adapter returned an empty list,
\* and the results were sent.
C3_Witness ==
    /\ pc = "done"
    /\ results # <<>>
    /\ \A g \in DOMAIN results : results[g].items = <<>>
    /\ SentResults

----------------------------------------------------------------------------
(* C4 *)

\* C4: a GET answered with a non-success status (or, for Slack, with a body
\* whose ok is false) does not raise: the service gets its group, with no
\* items, and handle_search goes on: once it is past its adapter blocks every
\* configured service was queried, and when the results are sent every
\* configured service has its group, holding the items its response carried.
C4_NonSuccessIsEmptyGroup ==
    \A i \in DOMAIN trace :
        (IsGet(trace[i]) /\ NonSuccess(trace[i].service, trace[i].response)) =>
            LET s == trace[i].service
            IN  /\ raisedBy # AdapterOf(s)
                /\ \E g \in GroupsOf(s) : results[g].items = <<>>
                /\ Aggregated => \A o \in Range(Services) : BundlePresent(o) => GetsTo(o) # {}
                /\ SentResults =>
                     LET lines == SentLines
                     IN  \A o \in Range(Services) :
                            BundlePresent(o) =>
                                /\ \E j \in GetsTo(o), g \in GroupsOf(o) :
                                        results[g].items = ListIn(o, trace[j].response)
                                /\ \E n \in DOMAIN lines : lines[n] = ServiceLine(o)

\* C4 witness: Slack answered with a body whose ok is false, Jira with a
\* non-success status, Confluence with items, and the results were sent.
C4_Witness ==
    /\ SentResults
    /\ \E i \in GetsTo("Slack") : trace[i].response.ok /\ NonSuccess("Slack", trace[i].response)
    /\ \E i \in GetsTo("Jira") : NonSuccess("Jira", trace[i].response)
    /\ \E g \in GroupsOf("Confluence") : results[g].items # <<>>

----------------------------------------------------------------------------
(* C5 *)

\* C5, as claimed: a GET that fails (a timeout or transport error, or a
\* success status with a body that is no JSON or not of the expected shape)
\* does not leave the adapter as an exception: the service gets its group,
\* with no items, the next services are still queried, and a reply is sent.
C5_FailureIsEmptyGroup ==
    \A i \in DOMAIN trace :
        (IsGet(trace[i]) /\ Failure(trace[i].service, trace[i].response)) =>
            LET s == trace[i].service
            IN  /\ raisedBy # AdapterOf(s)
                /\ \E g \in GroupsOf(s) : results[g].items = <<>>
                /\ Finished => Len(Responds) = 1

----------------------------------------------------------------------------
(* C6 *)

\* the tokens of the lower-cased corpus of results
CorpusTokens ==
    LET appends == CorpusAppends(results)
    IN  Tokens([i \in DOMAIN appends |-> appends[i].value])

\* how often a token occurs among tokens
Frequency(tokens, tok) == Cardinality({i \in DOMAIN tokens : tokens[i] = tok})

\* the tokens that may be listed
Qualifying(tokens) == {tok \in Range(tokens) : Len(tok) >= 3 /\ tok \notin stop}

\* the words of the summary sent, none when no summary was sent
SentWords ==
    LET lines == SentLines
    IN  IF \E n \in DOMAIN lines : lines[n].line = "summary"
        THEN (CHOOSE l \in Range(lines) : l.line = "summary").summary.words
        ELSE <<>>

Min(a, b) == IF a < b THEN a ELSE b

\* C6: the summary sent lists the 5 most frequent qualifying tokens (all of
\* them when fewer qualify): distinct tokens, each at least 3 characters long
\* and no stop-word, in order of non-increasing frequency in the lower-cased
\* corpus, and no qualifying token left out is more frequent than a listed
\* one.
C6_TopFiveQualifying ==
    SentResults =>
        LET tokens == CorpusTokens
            words == SentWords
            qualifying == Qualifying(tokens)
            count == [tok \in qualifying |-> Frequency(tokens, tok)]
        IN  /\ Len(words) = Min(5, Cardinality(qualifying))
            /\ \A i, j \in DOMAIN words : i # j => words[i] # words[j]
            /\ \A i \in DOMAIN words : words[i] \in qualifying
            /\ \A i, j \in DOMAIN words : i < j => count[words[i]] >= count[words[j]]
            /\ \A tok \in qualifying \ Range(words) :
                    \A i \in DOMAIN words : count[tok] <= count[words[i]]

\* C6 witness: more than 5 tokens qualify, a stop-word and a short token occur
\* in the corpus, and the word listed first is more frequent than the last and
\* is not the first of the corpus.
C6_Witness ==
    /\ SentResults
    /\ LET tokens == CorpusTokens
           words == SentWords
       IN  /\ Cardinality(Qualifying(tokens)) > 5
           /\ Len(words) = 5
           /\ \E tok \in Range(tokens) : tok \in stop
           /\ \E tok \in Range(tokens) : Len(tok) < 3
           /\ words[1] # tokens[1]
           /\ Frequency(tokens, words[1]) > Frequency(tokens, words[5])

----------------------------------------------------------------------------
(* C7 *)

\* C7, as claimed: summarize_results never raises, whatever the items hold,
\* and when no token of the corpus qualifies the results sent have no
\* "Summary:" section.
C7_SummarizerNeverRaises ==
    /\ raisedBy # "summarize_results"
    /\ (SentResults /\ Qualifying(CorpusTokens) = {}) =>
            LET lines == SentLines
            IN  \A n \in DOMAIN lines : lines[n] # SummaryHeaderLine

----------------------------------------------------------------------------
(* C8 *)

\* C8: a service whose bundle is only partly present is treated as not
\* configured: it is never queried, has no group and no line in the results
\* sent, no exception comes from its adapter, and when no service has its
\* full bundle the reply to a query is the "No services configured" notice.
C8_PartialBundleIsSkipped ==
    /\ \A s \in {"Jira", "Confluence"} :
            BundlePartial(s) =>
                /\ GetsTo(s) = {}
                /\ GroupsOf(s) = {}
                /\ raisedBy # AdapterOf(s)
                /\ SentResults =>
                        LET lines == SentLines
                        IN  \A n \in DOMAIN lines : lines[n] # ServiceLine(s)
    /\ ((\A s \in Range(Services) : ~BundlePresent(s)) /\ Finished /\ Truthy(query)) =>
            Responds = <<RespondCall(NotConfiguredNotice)>>

\* C8 witness: the Jira bundle lacks one variable, the Confluence bundle has
\* an empty one, Slack is configured, and the results were sent.
C8_Witness ==
    /\ SentResults
    /\ BundlePartial("Jira") /\ \E v \in BundleVars("Jira") : env[v] = None
    /\ BundlePartial("Confluence") /\ \E v \in BundleVars("Confluence") : env[v] = ""
    /\ ServiceNames(results) = <<"Slack">>

----------------------------------------------------------------------------
(* C9 *)

Max(a, b) == IF a > b THEN a ELSE b

\* the number of lines of the block of group g: the service line, one line
\* per item or the one "no results" line, the blank line
BlockLen(g) == 2 + Max(1, Len(results[g].items))

\* the line the block of group g starts at, the header being line 1
RECURSIVE BlockStart(_)
BlockStart(g) == IF g = 1 THEN 2 ELSE BlockStart(g - 1) + BlockLen(g - 1)

\* C9: the results sent are the header line for the query, then for each
\* group, in the order of results, the service line, one bullet per item in
\* the order of the items (or the one "no results" line when there are none),
\* and a blank line; after the last block comes nothing or the summary.
C9_ReplyLayout ==
    SentResults =>
        LET lines == SentLines
            last == IF results = <<>> THEN 1
                    ELSE BlockStart(Len(results)) + BlockLen(Len(results)) - 1
        IN  /\ lines[1] = HeaderLine(query)
            /\ \A g \in DOMAIN results :
                    LET b == BlockStart(g)
                        items == results[g].items
                    IN  /\ lines[b] = ServiceLine(results[g].service)
                        /\ IF items = <<>> THEN lines[b + 1] = NoResultsLine
                           ELSE \A k \in DOMAIN items :
                                    lines[b + k] = ItemLine(results[g].service, items[k], env).value
                        /\ lines[b + BlockLen(g) - 1] = BlankLine
                        /\ Cardinality({n \in b..(b + BlockLen(g) - 1) : lines[n].line = "bullet"})
                                = Len(items)
            /\ Len(lines) \in {last, last + 2}
            /\ \A n \in (last + 1)..Len(lines) : lines[n].line \in {"summary header", "summary"}

\* C9 witness: the results sent have a group of two different items, in the
\* order returned, and a group without items.
C9_Witness ==
    /\ SentResults
    /\ \E g \in DOMAIN results :
            /\ Len(results[g].items) = 2
            /\ results[g].items[1] # results[g].items[2]
    /\ \E g \in DOMAIN results : results[g].items = <<>>

----------------------------------------------------------------------------
(* C10 *)

\* the place of a service in the order Chat, IssueTracker, Wiki
Place(s) == CHOOSE n \in DOMAIN Services : Services[n] = s

\* C10, as claimed: ack is called once, before any GET and before respond; the
\* GETs go to Chat, IssueTracker, Wiki in that order, at most one each; and
\* unless an adapter raises, respond is called exactly once, after the last
\* GET.
C10_CallOrder ==
    /\ trace # <<>> => trace[1] = AckCall
    /\ Len(Acks) <= 1
    /\ \A i, j \in DOMAIN Gets : i < j => Place(Gets[i].service) < Place(Gets[j].service)
    /\ Len(Responds) <= 1
    /\ Responds # <<>> => IsRespond(trace[Len(trace)])
    /\ (Finished /\ raisedBy \notin {"search_slack", "search_jira", "search_confluence"}) =>
            Len(Responds) = 1

====
